---- MODULE Spec2Model ----
(***************************************************************************)
(* PFDataService (parflow/tools/pf_data_service.py): the facade over the   *)
(* two interchangeable .pfb codecs.  The state is the facade object        *)
(* (self), the readers currently open, and the last call with what it      *)
(* returned or raised.  The codec classes and read_stack_of_pfbs live in   *)
(* parflow.tools.pf_xarray, outside the facade's file; they appear here    *)
(* through the contract the facade relies on.                              *)
(***************************************************************************)
EXTENDS Integers, Sequences, FiniteSets, TLC

VARIABLES self, constructed, accel_resolved, open_readers, ret

vars == <<self, constructed, accel_resolved, open_readers, ret>>

---------------------------------------------------------------------------
(* Bounds of the model *)

\* number of distinct .pfb files a caller can name
MaxFiles == 2
\* longest list handed to read_pfb_files_numpy
MaxStack == 4
\* most keys a codec header may fail to supply
MaxMissing == 1

---------------------------------------------------------------------------
(* Python values.  A value carries its type, so that None, a string, an    *)
(* int, an empty dict and an array are all different values.               *)

None == [type |-> "NoneType"]

PyStr(s) == [type |-> "str", val |-> s]

PyInt(n) == [type |-> "int", val |-> n]

PyDict(f) == [type |-> "dict", val |-> f]

PyClass(impl, name) == [type |-> "class", val |-> <<impl, name>>]

EmptyMap == [k \in {} |-> None]

\* f with key k set to v (dict item assignment)
SetItem(f, k, v) == [j \in (DOMAIN f) \cup {k} |-> IF j = k THEN v ELSE f[j]]

\* dict.get(k, default)
Get(f, k, default) == IF k \in DOMAIN f THEN f[k] ELSE default

---------------------------------------------------------------------------
(* The grid of the test input files: 10 x 10 x 8, one subgrid.             *)

NX == 10

NY == 10

NZ == 8

Files == 1..MaxFiles

\* the 13 header keys, in the order read_pfb_numpy assigns them
KeyOrder == <<"x", "y", "z", "dx", "dy", "dz", "nx", "ny", "nz", "p", "q", "r", "n_subgrids">>

Keys == {KeyOrder[i] : i \in 1..Len(KeyOrder)}

Modes == {"full", "flat", "tiled"}

Axes == {"z", "time"}

---------------------------------------------------------------------------
(* Backend selection: __init__ and configure_dependency_injection          *)

AcceleratedBindings == [parflow_binary_reader_class |-> PyClass("default", "ParflowBinaryReader"), parflow_backend_entrypoint_class |-> PyClass("default", "ParflowBackendEntrypoint"), read_stack_of_pfbs |-> PyClass("default", "read_stack_of_pfbs")]

PortableBindings == [parflow_binary_reader_class |-> PyClass("portable", "ParflowBinaryReader"), parflow_backend_entrypoint_class |-> PyClass("portable", "ParflowBackendEntrypoint"), read_stack_of_pfbs |-> PyClass("portable", "read_stack_of_pfbs")]

\* what one import statement can do: succeed, raise an Exception (ImportError, a
\* numba or typing error, ...), or raise a BaseException that is no Exception
ImportOutcomes == {"ok", "Exception", "BaseException"}

\* the three import statements of a block, in order
ImportBlocks == [1..3 -> ImportOutcomes]

\* the outcome of running three imports in order: "ok", or what the first failing one raises
RunImports(imports) == IF \A i \in 1..3 : imports[i] = "ok" THEN "ok" ELSE imports[CHOOSE i \in 1..3 : imports[i] # "ok" /\ \A j \in 1..(i - 1) : imports[j] = "ok"]

\* the four assignments that follow the imports of a block
Bind(s, bindings, implementation_type) == [s EXCEPT !.parflow_binary_reader_class = bindings.parflow_binary_reader_class, !.parflow_backend_entrypoint_class = bindings.parflow_backend_entrypoint_class, !.read_stack_of_pfbs = bindings.read_stack_of_pfbs, !.implementation_type = PyStr(implementation_type)]

\* a plausible slip: the fallback keeps whatever the failed try block left and only records the type
PortableBlockKeepsBindings(s, portable) == IF RunImports(portable) = "ok" THEN [raised |-> "no", self |-> [s EXCEPT !.implementation_type = PyStr("portable")]] ELSE [raised |-> RunImports(portable), self |-> s]

\* the except block: the portable imports, then the portable assignments
PortableBlock(s, portable) == IF RunImports(portable) = "ok" THEN [raised |-> "no", self |-> Bind(s, PortableBindings, "portable")] ELSE [raised |-> RunImports(portable), self |-> s]

\* try: the accelerated imports, then the assignments; except Exception: the portable block.
\* A BaseException that is no Exception is not caught.
configure_dependency_injection(s, accel, portable) == IF RunImports(accel) = "ok" THEN [raised |-> "no", self |-> Bind(s, AcceleratedBindings, "default")] ELSE IF RunImports(accel) = "Exception" THEN PortableBlock(s, portable) ELSE [raised |-> RunImports(accel), self |-> s]

\* the attributes __init__ sets before it configures the bindings
InitialAttributes == [z_first |-> TRUE, z_is |-> PyStr("z"), parflow_binary_reader_class |-> None, parflow_backend_entrypoint_class |-> None, read_stack_of_pfbs |-> None, implementation_type |-> None]

__init__(accel, portable) == configure_dependency_injection(InitialAttributes, accel, portable)

---------------------------------------------------------------------------
(* The codec the facade is bound to (parflow.tools.pf_xarray.io): what a    *)
(* reader of one file does.  Both implementations honour one contract, so   *)
(* the behaviour does not depend on which of them is bound.                 *)

NdArray(shape, files) == [type |-> "ndarray", shape |-> shape, files |-> files]

\* the header of the test input files, every key supplied
FullHeader == [k \in Keys |-> PyInt(CASE k = "nx" -> NX [] k = "ny" -> NY [] k = "nz" -> NZ [] k \in {"p", "q", "r", "n_subgrids"} -> 1 [] OTHER -> 0)]

\* the headers a codec may hold: the full one less at most MaxMissing keys
CodecHeaders == {[k \in Keys \ missing |-> FullHeader[k]] : missing \in {m \in SUBSET Keys : Cardinality(m) <= MaxMissing}}

\* how the codec behaves on one file: whether it opens, whether the payload decodes,
\* the header it holds, and which header lookup (0: none) raises
Codecs == {[open |-> "FileNotFoundError", decode |-> "ok", header |-> FullHeader, lookup_raises |-> 0], [open |-> "ok", decode |-> "DecodeError", header |-> FullHeader, lookup_raises |-> 0]} \cup {[open |-> "ok", decode |-> "ok", header |-> h, lookup_raises |-> n] : h \in CodecHeaders, n \in 0..Len(KeyOrder)}

\* the shape of one assembled file
AssembledShape(mode, z_first) == CASE mode = "full" -> (IF z_first THEN <<NZ, NY, NX>> ELSE <<NX, NY, NZ>>) [] mode = "flat" -> <<NX * NY * NZ>> [] mode = "tiled" -> <<FullHeader["n_subgrids"].val, NZ, NY, NX>>

\* ParflowBinaryReader.read_all_subgrids(mode, z_first)
read_all_subgrids(codec, file_name, mode, z_first) == IF mode \notin Modes THEN [raised |-> "UnsupportedModeError", value |-> None] ELSE IF codec.decode # "ok" THEN [raised |-> codec.decode, value |-> None] ELSE [raised |-> "no", value |-> NdArray(AssembledShape(mode, z_first), <<file_name>>)]

\* the shape read_stack_of_pfbs gives n files of one per-file shape: a new leading
\* axis of length n, which z_is = "time" merges with the per-file leading axis
stack_shape(n, shape, z_is) == IF z_is = "time" THEN <<n * Head(shape)>> \o Tail(shape) ELSE <<n>> \o shape

\* read_stack_of_pfbs(file_names, z_first=, z_is=)
read_stack_of_pfbs(file_names, z_first, z_is, decode) == IF z_is.type # "str" \/ z_is.val \notin Axes THEN [raised |-> "UnsupportedModeError", value |-> None] ELSE IF decode # "ok" THEN [raised |-> decode, value |-> None] ELSE [raised |-> "no", value |-> NdArray(stack_shape(Len(file_names), AssembledShape("full", z_first), z_is.val), file_names)]

---------------------------------------------------------------------------
(* The facade's operations.  Each gives the facade after the call, the     *)
(* readers left open, and what the caller gets: a value or an exception.   *)

Returned(s, open, value, header) == [self |-> s, open_readers |-> open, outcome |-> "returned", value |-> value, error |-> "no", header |-> header, passed |-> None]

Raised(s, open, error, header) == [self |-> s, open_readers |-> open, outcome |-> "raised", value |-> None, error |-> error, header |-> header, passed |-> None]

\* the same result, with the arguments the call handed to its collaborator
Passing(result, call) == [result EXCEPT !.passed = call]

\* xr.open_dataset(str(file_name), name='xxdefault_single', engine=...)
read_pfb_xarray_dataset(s, open, file_name, header, codec) == IF codec.open # "ok" THEN Raised(s, open, codec.open, header) ELSE IF codec.decode # "ok" THEN Raised(s, open, codec.decode, header) ELSE Returned(s, open, [type |-> "Dataset", engine |-> s.parflow_backend_entrypoint_class, file |-> file_name, name |-> "xxdefault_single"], header)

\* xr.open_dataarray(str(file_name), name=os.path.basename(file_name), engine=...)
read_pfb_xarray_dataarray(s, open, file_name, codec) == IF codec.open # "ok" THEN Raised(s, open, codec.open, None) ELSE IF codec.decode # "ok" THEN Raised(s, open, codec.decode, None) ELSE Returned(s, open, [type |-> "DataArray", engine |-> s.parflow_backend_entrypoint_class, file |-> file_name, name |-> <<"basename", file_name>>], None)

\* header[k] = pfb.header.get(k, None) for the first n keys of KeyOrder
RECURSIVE PopulateSkipsMissing(_, _, _)
PopulateSkipsMissing(h, codec_header, n) == IF n = 0 THEN h ELSE IF KeyOrder[n] \in DOMAIN codec_header THEN SetItem(PopulateSkipsMissing(h, codec_header, n - 1), KeyOrder[n], codec_header[KeyOrder[n]]) ELSE PopulateSkipsMissing(h, codec_header, n - 1)

RECURSIVE Populate(_, _, _)
Populate(h, codec_header, n) == IF n = 0 THEN h ELSE SetItem(Populate(h, codec_header, n - 1), KeyOrder[n], Get(codec_header, KeyOrder[n], None))

\* a plausible slip: the reader is closed by a call after the block, which a raise skips
close_after_block(open, reader, raising) == IF raising THEN open ELSE open \ {reader}

\* leaving the with block, normally or by an exception, runs the reader's __exit__
with_exit(open, reader, raising) == open \ {reader}

\* the body of the with block: the read, then the population of the caller's dict
with_body(s, open, file_name, header, mode, codec) == LET data == read_all_subgrids(codec, file_name, mode, s.z_first) IN IF data.raised # "no" THEN Raised(s, with_exit(open, file_name, TRUE), data.raised, header) ELSE IF header = None THEN Returned(s, with_exit(open, file_name, FALSE), data.value, header) ELSE IF codec.lookup_raises # 0 THEN Raised(s, with_exit(open, file_name, TRUE), "LookupError", PyDict(Populate(header.val, codec.header, codec.lookup_raises - 1))) ELSE Returned(s, with_exit(open, file_name, FALSE), data.value, PyDict(Populate(header.val, codec.header, Len(KeyOrder))))

read_pfb_numpy(s, open, file_name, header, mode, codec) == IF codec.open # "ok" THEN Raised(s, open, codec.open, header) ELSE with_body(s, open \cup {file_name}, file_name, header, mode, codec)

\* a plausible slip: an omitted z_is falls back to a constant instead of the facade's option
outer_axis_constant(s, z_is) == IF z_is = None THEN PyStr("time") ELSE z_is

\* a plausible slip: the facade's option is used whatever the caller gives
outer_axis_ignores_argument(s, z_is) == s.z_is

\* if z_is is None: z_is = self.z_is
outer_axis(s, z_is) == IF z_is = None THEN s.z_is ELSE z_is

\* the keyword arguments of the call of the stacker
stacker_call(s, file_names, z_is) == [file_names |-> file_names, z_first |-> s.z_first, z_is |-> outer_axis(s, z_is)]

\* a plausible slip: the resolved axis is stored on the facade
read_pfb_files_numpy_stores_axis(s, open, file_names, header, mode, z_is, decode) == LET call == stacker_call(s, file_names, z_is) ng == read_stack_of_pfbs(call.file_names, call.z_first, call.z_is, decode) t == [s EXCEPT !.z_is = call.z_is] IN Passing(IF ng.raised # "no" THEN Raised(t, open, ng.raised, header) ELSE Returned(t, open, ng.value, header), call)

read_pfb_files_numpy(s, open, file_names, header, mode, z_is, decode) == LET call == stacker_call(s, file_names, z_is) ng == read_stack_of_pfbs(call.file_names, call.z_first, call.z_is, decode) IN Passing(IF ng.raised # "no" THEN Raised(s, open, ng.raised, header) ELSE Returned(s, open, ng.value, header), call)

\* header = None; return header
read_pfb_header(s, open, file_name) == Returned(s, open, None, None)

\* pass
write_dist_files_from_numpy(s, open, header, data, mode) == Returned(s, open, None, header)

\* pass
write_pfb_from_numpy(s, open, header, data, mode) == Returned(s, open, None, header)

---------------------------------------------------------------------------
(* What callers pass                                                       *)

\* header=: omitted, an empty dict, or a dict that already holds entries
HeaderArgs == {None, PyDict(EmptyMap), PyDict(("nx" :> PyInt(99)) @@ ("units" :> PyStr("m")))}

\* mode=: the three documented modes and one that is none of them
ModeArgs == Modes \cup {"bogus"}

\* z_is=: omitted, the two documented axes and one that is neither
ZIsArgs == {None, PyStr("z"), PyStr("time"), PyStr("bogus")}

\* non-empty lists of files, repetitions and any order allowed
FileLists == UNION {[1..n -> Files] : n \in 1..MaxStack}

DecodeOutcomes == {"ok", "DecodeError"}

\* header and data given to the write operations
WriteArgs == {[header |-> PyDict(FullHeader), data |-> NdArray(AssembledShape(m, TRUE), <<>>), mode |-> m] : m \in Modes}

---------------------------------------------------------------------------
(* The state machine                                                       *)

NoCall == [op |-> "none"]

\* the record of a finished call: the operation, its arguments, how the codec behaved, the result
Finished(op, args, env, r) == [op |-> op, args |-> args, env |-> env, outcome |-> r.outcome, value |-> r.value, error |-> r.error, header |-> r.header, passed |-> r.passed]

\* service = PFDataService(): either a facade, or the exception __init__ let through
Init == \E accel \in ImportBlocks, portable \in ImportBlocks : LET r == __init__(accel, portable) IN /\ self = r.self /\ constructed = (IF r.raised = "no" THEN "ready" ELSE "failed") /\ accel_resolved = (RunImports(accel) = "ok") /\ open_readers = {} /\ ret = NoCall

Idle == constructed = "ready" /\ ret = NoCall

\* the application sets the two options of the facade
Configure == /\ Idle /\ \E zf \in BOOLEAN, zi \in Axes : self' = [self EXCEPT !.z_first = zf, !.z_is = PyStr(zi)] /\ UNCHANGED <<constructed, accel_resolved, open_readers, ret>>

Call_read_pfb_xarray_dataset == /\ Idle /\ \E f \in Files, h \in HeaderArgs, c \in Codecs : LET r == read_pfb_xarray_dataset(self, open_readers, f, h, c) IN /\ self' = r.self /\ open_readers' = r.open_readers /\ ret' = Finished("read_pfb_xarray_dataset", [file_name |-> f, header |-> h], c, r) /\ UNCHANGED <<constructed, accel_resolved>>

Call_read_pfb_xarray_dataarray == /\ Idle /\ \E f \in Files, c \in Codecs : LET r == read_pfb_xarray_dataarray(self, open_readers, f, c) IN /\ self' = r.self /\ open_readers' = r.open_readers /\ ret' = Finished("read_pfb_xarray_dataarray", [file_name |-> f], c, r) /\ UNCHANGED <<constructed, accel_resolved>>

Call_read_pfb_numpy == /\ Idle /\ \E f \in Files, h \in HeaderArgs, m \in ModeArgs, c \in Codecs : LET r == read_pfb_numpy(self, open_readers, f, h, m, c) IN /\ self' = r.self /\ open_readers' = r.open_readers /\ ret' = Finished("read_pfb_numpy", [file_name |-> f, header |-> h, mode |-> m], c, r) /\ UNCHANGED <<constructed, accel_resolved>>

Call_read_pfb_files_numpy == /\ Idle /\ \E fs \in FileLists, h \in HeaderArgs, m \in ModeArgs, z \in ZIsArgs, d \in DecodeOutcomes : LET r == read_pfb_files_numpy(self, open_readers, fs, h, m, z, d) IN /\ self' = r.self /\ open_readers' = r.open_readers /\ ret' = Finished("read_pfb_files_numpy", [file_names |-> fs, header |-> h, mode |-> m, z_is |-> z], d, r) /\ UNCHANGED <<constructed, accel_resolved>>

Call_read_pfb_header == /\ Idle /\ \E f \in Files, h \in CodecHeaders : LET r == read_pfb_header(self, open_readers, f) IN /\ self' = r.self /\ open_readers' = r.open_readers /\ ret' = Finished("read_pfb_header", [file_name |-> f], [open |-> "ok", decode |-> "ok", header |-> h, lookup_raises |-> 0], r) /\ UNCHANGED <<constructed, accel_resolved>>

Call_write_dist_files_from_numpy == /\ Idle /\ \E w \in WriteArgs : LET r == write_dist_files_from_numpy(self, open_readers, w.header, w.data, w.mode) IN /\ self' = r.self /\ open_readers' = r.open_readers /\ ret' = Finished("write_dist_files_from_numpy", w, None, r) /\ UNCHANGED <<constructed, accel_resolved>>

Call_write_pfb_from_numpy == /\ Idle /\ \E w \in WriteArgs : LET r == write_pfb_from_numpy(self, open_readers, w.header, w.data, w.mode) IN /\ self' = r.self /\ open_readers' = r.open_readers /\ ret' = Finished("write_pfb_from_numpy", w, None, r) /\ UNCHANGED <<constructed, accel_resolved>>

\* the caller takes the result, or handles the exception, and goes on
CallerContinues == /\ constructed = "ready" /\ ret # NoCall /\ ret' = NoCall /\ UNCHANGED <<self, constructed, accel_resolved, open_readers>>

Next == \/ Configure \/ Call_read_pfb_xarray_dataset \/ Call_read_pfb_xarray_dataarray \/ Call_read_pfb_numpy \/ Call_read_pfb_files_numpy \/ Call_read_pfb_header \/ Call_write_dist_files_from_numpy \/ Call_write_pfb_from_numpy \/ CallerContinues

Spec == Init /\ [][Next]_vars

---------------------------------------------------------------------------
(* Properties                                                              *)

\* the three injected bindings of a facade
Bindings(s) == [parflow_binary_reader_class |-> s.parflow_binary_reader_class, parflow_backend_entrypoint_class |-> s.parflow_backend_entrypoint_class, read_stack_of_pfbs |-> s.read_stack_of_pfbs]

\* the metadata a returned value carries about its outer axis, None when it carries none
AxisLabel(value) == IF "axis_label" \in DOMAIN value THEN value.axis_label ELSE None

IsCall(op) == ret # NoCall /\ ret.op = op

\* a step in which a facade operation runs: only the operations record a call
OperationStep == ret = NoCall /\ ret' # NoCall

\* C1: a constructed facade holds exactly the accelerated bindings, recorded as
\* "default", when all three accelerated imports succeeded, and exactly the portable
\* bindings, recorded as "portable", when one of them failed; the bindings never mix.
C1_BackendSelection ==
    constructed = "ready" =>
        IF accel_resolved
        THEN Bindings(self) = AcceleratedBindings /\ self.implementation_type = PyStr("default")
        ELSE Bindings(self) = PortableBindings /\ self.implementation_type = PyStr("portable")

C1_Witness == constructed = "ready" /\ ~accel_resolved /\ self.implementation_type = PyStr("portable")

\* C2: after a read_pfb_numpy that returned, a header dict given by the caller holds
\* all 13 keys, each with the codec's value, or None where the codec has none; with no
\* header given nothing is populated; the data returned is the same in both cases.
C2_HeaderPopulated ==
    (IsCall("read_pfb_numpy") /\ ret.outcome = "returned") =>
        /\ ret.value = NdArray(AssembledShape(ret.args.mode, self.z_first), <<ret.args.file_name>>)
        /\ IF ret.args.header = None
           THEN ret.header = None
           ELSE /\ ret.header.type = "dict"
                /\ \A k \in Keys :
                      /\ k \in DOMAIN ret.header.val
                      /\ ret.header.val[k] = (IF k \in DOMAIN ret.env.header THEN ret.env.header[k] ELSE None)

C2_Witness == IsCall("read_pfb_numpy") /\ ret.outcome = "returned" /\ ret.args.header = PyDict(EmptyMap) /\ "nz" \notin DOMAIN ret.env.header /\ ret.header.val["nz"] = None /\ ret.header.val["nx"] = PyInt(NX)

\* a list read with z_is omitted, on a facade that still has its default options
DefaultStack == IsCall("read_pfb_files_numpy") /\ ret.outcome = "returned" /\ ret.args.z_is = None /\ self.z_is = PyStr("z") /\ self.z_first

\* C3 as stated: with the default outer axis "z", N files of (nz, ny, nx) give (N*nz, ny, nx).
C3_Original == DefaultStack => (ret.value.shape = <<Len(ret.args.file_names) * NZ, NY, NX>>)

\* C3 as amended: with the default outer axis "z", N files of (nz, ny, nx) give
\* (N, nz, ny, nx): the files are stacked along a new leading axis.
C3_DefaultStackShape == DefaultStack => (ret.value.shape = <<Len(ret.args.file_names), NZ, NY, NX>>)

C3_Witness == DefaultStack /\ Len(ret.args.file_names) = 4 /\ ret.value.shape = <<4, 8, 10, 10>>

\* C4: with z_is = "time", N files of (nz, ny, nx) give an array whose leading
\* dimension is N*nz and whose other dimensions are (ny, nx).
C4_TimeStackShape == (IsCall("read_pfb_files_numpy") /\ ret.outcome = "returned" /\ ret.args.z_is = PyStr("time") /\ self.z_first) => ret.value.shape = <<Len(ret.args.file_names) * NZ, NY, NX>>

C4_Witness == IsCall("read_pfb_files_numpy") /\ ret.outcome = "returned" /\ ret.args.z_is = PyStr("time") /\ self.z_is = PyStr("z") /\ self.z_first /\ Len(ret.args.file_names) = 4 /\ ret.value.shape = <<32, 10, 10>>

\* C5: the result of a "time" stack carries an axis label that differs from the one
\* the result of a "z" stack of the same files carries.
C5_AxisLabelDistinguishes == (IsCall("read_pfb_files_numpy") /\ ret.outcome = "returned" /\ ret.passed.z_is = PyStr("time")) => (AxisLabel(ret.value) # AxisLabel(read_pfb_files_numpy(self, open_readers, ret.args.file_names, ret.args.header, ret.args.mode, PyStr("z"), "ok").value))

\* C6: a read never returns a result when its mode is none of full, flat, tiled or
\* its outer axis is none of z, time.
C6_UnsupportedNeverReturns ==
    /\ (IsCall("read_pfb_numpy") /\ ret.outcome = "returned") => ret.args.mode \in Modes
    /\ (IsCall("read_pfb_files_numpy") /\ ret.outcome = "returned") =>
           (ret.args.mode \in Modes /\ ret.passed.z_is.val \in Axes)

\* C7: read_pfb_header of a readable file returns the header that read_pfb_numpy
\* populates for that file.
C7_HeaderReturned == (IsCall("read_pfb_header") /\ ret.outcome = "returned") => ret.value = read_pfb_numpy(self, open_readers, ret.args.file_name, PyDict(EmptyMap), "full", ret.env).header

\* what C8 says the stacker is handed: the caller's list, the facade's z_first, and
\* the caller's z_is or, when omitted, the facade's
C8_Passed == IsCall("read_pfb_files_numpy") => ret.passed = [file_names |-> ret.args.file_names, z_first |-> self.z_first, z_is |-> IF ret.args.z_is = None THEN self.z_is ELSE ret.args.z_is]

\* C8: the stacker is handed the caller's z_is, or the facade's when z_is is omitted,
\* with the facade's z_first and the caller's list unchanged and in order; and a call
\* leaves the facade's own z_is as it was, so an explicit z_is does not change the
\* default of later calls.
C8_OuterAxisPassed == [](C8_Passed) /\ [][(OperationStep /\ ret'.op = "read_pfb_files_numpy") => (self'.z_is = self.z_is)]_vars

C8_Witness == IsCall("read_pfb_files_numpy") /\ ret.args.z_is = None /\ self.z_is = PyStr("time") /\ ret.passed.z_is = PyStr("time") /\ Len(ret.args.file_names) = 3 /\ ret.args.file_names = <<2, 1, 2>> /\ ret.passed.file_names = <<2, 1, 2>>

\* C9: no facade operation, returning or raising, changes implementation_type, the
\* three bindings, z_first or z_is.
C9_OperationsLeaveFacade == [][OperationStep => (self' = self)]_vars

C9_Witness == IsCall("read_pfb_files_numpy") /\ ret.outcome = "raised" /\ ret.args.z_is = PyStr("bogus") /\ self.z_is = PyStr("z") /\ self.implementation_type = PyStr("default")

\* C10: once read_pfb_numpy has returned or raised, no reader is open; when the read
\* of the subgrids raises, that error reaches the caller and the caller's header dict
\* is as it was before the call; when a header lookup raises, that error reaches the caller.
C10_ReaderReleased ==
    IsCall("read_pfb_numpy") =>
        /\ open_readers = {}
        /\ (ret.env.open = "ok" /\ ret.args.mode \notin Modes) =>
               (ret.outcome = "raised" /\ ret.error = "UnsupportedModeError" /\ ret.header = ret.args.header)
        /\ (ret.env.open = "ok" /\ ret.args.mode \in Modes /\ ret.env.decode # "ok") =>
               (ret.outcome = "raised" /\ ret.error = ret.env.decode /\ ret.header = ret.args.header)
        /\ (ret.env.open = "ok" /\ ret.args.mode \in Modes /\ ret.env.decode = "ok" /\ ret.args.header # None /\ ret.env.lookup_raises # 0) =>
               (ret.outcome = "raised" /\ ret.error = "LookupError")

C10_Witness == IsCall("read_pfb_numpy") /\ ret.outcome = "raised" /\ ret.error = "DecodeError" /\ ret.args.header = PyDict(EmptyMap) /\ ret.header = PyDict(EmptyMap) /\ open_readers = {}

====
